---- MODULE Spec2Model ----
(***************************************************************************)
(* A model of package envy (src/envy.go): typed access to environment      *)
(* variables, either immediately (String, Int, ...) or through bindings    *)
(* queued by StringVar, IntVar, ... and resolved by Parse.                  *)
(*                                                                         *)
(* Strings are sequences of one-character strings.  Integers are kept as   *)
(* sign and decimal magnitude (a sequence of digits without leading        *)
(* zeros), so that the 64-bit range checks of strconv are computed as the  *)
(* library computes them and not cut to the checker's own integer width.   *)
(***************************************************************************)
EXTENDS Integers, Sequences, FiniteSets, TLC

VARIABLES
    env,       \* the process environment: name -> value, or Absent
    vars,      \* the queue of configured bindings (var vars []func())
    dest,      \* the callers' destinations: address -> value
    atype,     \* the Go type of each destination (fixed by its declaration)
    wordSize,  \* the width of int and uint on the platform (strconv.IntSize)
    last,      \* what the call just made did: its operation, result and panic
    threads    \* the binder calls in progress on other goroutines, if any

state == <<env, vars, dest, atype, wordSize, last, threads>>

----------------------------------------------------------------------------
(* Decimal magnitudes                                                       *)

DigitChars == <<"0", "1", "2", "3", "4", "5", "6", "7", "8", "9">>

IsDigit(c) == \E i \in 1..10 : DigitChars[i] = c

DigitVal(c) == (CHOOSE i \in 1..10 : DigitChars[i] = c) - 1

\* a digit sequence without its leading zeros (zero is <<0>>)
StripZeros(ds) ==
    IF \A i \in 1..Len(ds) : ds[i] = 0 THEN <<0>>
    ELSE SubSeq(ds, CHOOSE i \in 1..Len(ds) :
                        ds[i] # 0 /\ \A j \in 1..(i - 1) : ds[j] = 0,
                Len(ds))

\* a < b, for digit sequences of one length
LexLess(a, b) ==
    \E i \in 1..Len(a) : a[i] < b[i] /\ \A j \in 1..(i - 1) : a[j] = b[j]

\* a < b, for magnitudes without leading zeros
MagLess(a, b) ==
    IF Len(a) # Len(b) THEN Len(a) < Len(b) ELSE LexLess(a, b)

MagLeq(a, b) == a = b \/ MagLess(a, b)

\* n * 10 + d
MagPush(n, d) == StripZeros(Append(n, d))

\* ds with zeros in front, to length n
PadTo(ds, n) ==
    IF Len(ds) >= n THEN ds
    ELSE [i \in 1..n |-> IF i <= n - Len(ds) THEN 0 ELSE ds[i - (n - Len(ds))]]

\* a - b for a >= b of one length, digit by digit: digit i lends to digit
\* i + 1 when what is right of it in a is less than what is right of it in b
Borrow(a, b, i) ==
    IF LexLess(SubSeq(a, i + 1, Len(a)), SubSeq(b, i + 1, Len(b))) THEN 1 ELSE 0

SubDigits(a, b) ==
    [i \in 1..Len(a) |-> (a[i] - b[i] - Borrow(a, b, i) + 10) % 10]

MagSub(a, b) == StripZeros(SubDigits(a, PadTo(b, Len(a))))

RECURSIVE ReduceBelow(_, _)
ReduceBelow(r, m) == IF MagLess(r, m) THEN r ELSE ReduceBelow(MagSub(r, m), m)

\* a mod m by long division, one digit of a at a time; r, the remainder so
\* far, is below m throughout
RECURSIVE MagModFrom(_, _, _, _)
MagModFrom(a, m, i, r) ==
    IF MagLess(r, m) /\ i <= Len(a)
    THEN MagModFrom(a, m, i + 1, ReduceBelow(MagPush(r, a[i]), m))
    ELSE r

\* a mod m: a itself when it is below m; otherwise the long division, which
\* starts after the first Len(m) - 1 digits of a, a number below m
MagMod(a, m) ==
    IF MagLess(a, m) THEN a
    ELSE MagModFrom(a, m, Len(m), StripZeros(<<0>> \o SubSeq(a, 1, Len(m) - 1)))

\* 2^32, 2^31, 2^64 and 2^63 as magnitudes
Pow2_31 == <<2, 1, 4, 7, 4, 8, 3, 6, 4, 8>>
Pow2_32 == <<4, 2, 9, 4, 9, 6, 7, 2, 9, 6>>
Pow2_63 == <<9, 2, 2, 3, 3, 7, 2, 0, 3, 6, 8, 5, 4, 7, 7, 5, 8, 0, 8>>
Pow2_64 == <<1, 8, 4, 4, 6, 7, 4, 4, 0, 7, 3, 7, 0, 9, 5, 5, 1, 6, 1, 6>>

Pow2(bits) ==
    CASE bits = 31 -> Pow2_31
      [] bits = 32 -> Pow2_32
      [] bits = 63 -> Pow2_63
      [] bits = 64 -> Pow2_64

----------------------------------------------------------------------------
(* Values.  A value carries the name of its Go type, as reflect prints it.  *)

Types == {"string", "int", "int64", "uint", "uint64", "float64", "bool",
          "time.Duration"}

V(t, v) == [t |-> t, v |-> v]

\* an integer: sign and magnitude; zero is never negative
IntV(neg, mag) == [neg |-> neg /\ mag # <<0>>, mag |-> mag]

\* a float64 with a decimal rendering: sign, digits, power of ten; or a special
FloatV(neg, mant, exp) == [kind |-> "finite", neg |-> neg, mant |-> mant, exp |-> exp]
FloatInf(neg) == [kind |-> "inf", neg |-> neg, mant |-> <<0>>, exp |-> 0]
FloatNaN == [kind |-> "nan", neg |-> FALSE, mant |-> <<0>>, exp |-> 0]

\* the zero value of a type (var zero T)
Zero(t) ==
    CASE t = "string" -> V(t, <<>>)
      [] t = "bool" -> V(t, FALSE)
      [] t = "float64" -> V(t, FloatV(FALSE, <<0>>, 0))
      [] OTHER -> V(t, IntV(FALSE, <<0>>))

----------------------------------------------------------------------------
(* strconv.  A conversion returns [ok |-> TRUE, v |-> value] or              *)
(* [ok |-> FALSE, err |-> e], e a *strconv.NumError{Func, Num, Err}.         *)

Ok(v) == [ok |-> TRUE, v |-> v]

NumError(fn, s, e) == [ok |-> FALSE, err |-> [func |-> fn, num |-> s, err |-> e]]

ErrSyntax == "invalid syntax"
ErrRange == "value out of range"

\* strconv.ParseUint's loop over the bytes of s, base 10: the first byte that
\* is no digit, or the first digit that takes the value past maxVal, ends it.
\* Digits is the value of the i bytes read so far, Stops whether the loop
\* ends at byte i, ScanEnd the byte it ends at (Len(s) + 1: it read them all).
Digits(s, i) == StripZeros(<<0>> \o [j \in 1..i |-> DigitVal(s[j])])

Stops(s, i, bitSize) ==
    \/ \E j \in 1..i : ~IsDigit(s[j])
    \/ ~MagLess(Digits(s, i), Pow2(bitSize))

ScanEnd(s, bitSize) ==
    CHOOSE i \in 1..(Len(s) + 1) :
        /\ i <= Len(s) => Stops(s, i, bitSize)
        /\ \A j \in 1..(i - 1) : ~Stops(s, j, bitSize)

ScanUint(s, i, bitSize) ==
    IF i > Len(s) THEN [ok |-> TRUE, n |-> Digits(s, Len(s)), e |-> ""]
    ELSE IF ~IsDigit(s[i]) THEN [ok |-> FALSE, n |-> <<0>>, e |-> ErrSyntax]
    ELSE [ok |-> FALSE, n |-> MagSub(Pow2(bitSize), <<1>>), e |-> ErrRange]

\* strconv.ParseUint(s, 10, bitSize): [ok, n, e], n the magnitude
ParseUintRaw(s, bitSize) ==
    IF s = <<>> THEN [ok |-> FALSE, n |-> <<0>>, e |-> ErrSyntax]
    ELSE ScanUint(s, ScanEnd(s, bitSize), bitSize)

UintResult(s, r) ==
    IF r.ok THEN Ok(IntV(FALSE, r.n)) ELSE NumError("ParseUint", s, r.e)

ParseUint(s, bitSize) == UintResult(s, ParseUintRaw(s, bitSize))

\* strconv.ParseInt after the sign is taken off: r is ParseUint's result on
\* the rest, cutoff is 2^(bitSize-1)
IntResult(fn, s, neg, r, cutoff) ==
    IF ~r.ok /\ r.e # ErrRange THEN NumError(fn, s, r.e)
    ELSE IF ~neg /\ ~MagLess(r.n, cutoff) THEN NumError(fn, s, ErrRange)
    ELSE IF neg /\ MagLess(cutoff, r.n) THEN NumError(fn, s, ErrRange)
    ELSE Ok(IntV(neg, r.n))

\* strconv.ParseInt(s, 10, bitSize), reporting its errors as function fn
ParseIntAs(fn, s, bitSize) ==
    IF s = <<>> THEN NumError(fn, s, ErrSyntax)
    ELSE IntResult(fn, s, s[1] = "-",
                   ParseUintRaw(IF s[1] \in {"+", "-"} THEN Tail(s) ELSE s, bitSize),
                   Pow2(bitSize - 1))

ParseInt(s, bitSize) == ParseIntAs("ParseInt", s, bitSize)

\* strconv.Atoi(s): ParseInt(s, 10, 0) at the platform's int size, its errors
\* renamed; the fast path for short strings gives the same results.
Atoi(s, intSize) == ParseIntAs("Atoi", s, intSize)

\* strconv.ParseBool(s)
ParseBool(s) ==
    IF s \in {<<"1">>, <<"t">>, <<"T">>, <<"T", "R", "U", "E">>,
              <<"t", "r", "u", "e">>, <<"T", "r", "u", "e">>}
    THEN Ok(TRUE)
    ELSE IF s \in {<<"0">>, <<"f">>, <<"F">>, <<"F", "A", "L", "S", "E">>,
                   <<"f", "a", "l", "s", "e">>, <<"F", "a", "l", "s", "e">>}
    THEN Ok(FALSE)
    ELSE NumError("ParseBool", s, ErrSyntax)

----------------------------------------------------------------------------
(* strconv.ParseFloat(s, 64), for the decimal literals and the special      *)
(* words.  The strings of this model hold no "_", "x" or "p", so digit      *)
(* separators and hexadecimal literals do not arise; literals have at most  *)
(* 15 significant digits, where a float64 determines its decimal rendering. *)

LowerCase == <<"a", "b", "c", "d", "e", "f", "g", "h", "i", "j", "k", "l", "m",
               "n", "o", "p", "q", "r", "s", "t", "u", "v", "w", "x", "y", "z">>
UpperCase == <<"A", "B", "C", "D", "E", "F", "G", "H", "I", "J", "K", "L", "M",
               "N", "O", "P", "Q", "R", "S", "T", "U", "V", "W", "X", "Y", "Z">>

Lower(c) ==
    IF \E i \in 1..26 : UpperCase[i] = c
    THEN LowerCase[CHOOSE i \in 1..26 : UpperCase[i] = c]
    ELSE c

LowerStr(s) == [i \in 1..Len(s) |-> Lower(s[i])]

\* the first index at or after i that holds no digit
RECURSIVE DigitsEnd(_, _)
DigitsEnd(s, i) ==
    IF i <= Len(s) /\ IsDigit(s[i]) THEN DigitsEnd(s, i + 1) ELSE i

DigitVals(s, from, to) == [k \in 1..(to - from) |-> DigitVal(s[from + k - 1])]

\* the digits m times ten to the exp, trailing zeros moved into the exponent
RECURSIVE FloatNorm(_, _, _)
FloatNorm(neg, m, exp) ==
    IF m = <<0>> THEN FloatV(neg, <<0>>, 0)
    ELSE IF m[Len(m)] = 0 THEN FloatNorm(neg, SubSeq(m, 1, Len(m) - 1), exp + 1)
    ELSE FloatV(neg, m, exp)

\* decimal exponent digits to a number, capped as readFloat caps it
RECURSIVE ExpVal(_, _)
ExpVal(ds, e) ==
    IF ds = <<>> THEN e
    ELSE ExpVal(Tail(ds), IF e < 10000 THEN e * 10 + ds[1] ELSE e)

\* the largest float64 is below 1.8e308
FloatResult(s, f) ==
    IF f.mant # <<0>> /\ Len(f.mant) + f.exp > 309
    THEN NumError("ParseFloat", s, ErrRange)
    ELSE Ok(f)

\* the exponent part, from index j0 on (after the "e"): j1 is past its sign,
\* j2 past its digits, which must end the string
FloatExpDigits(s, neg, digits, nfrac, eneg, j1, j2) ==
    IF j2 = j1 \/ j2 # Len(s) + 1 THEN NumError("ParseFloat", s, ErrSyntax)
    ELSE FloatResult(s, FloatNorm(neg, StripZeros(digits),
             (IF eneg THEN 0 - ExpVal(DigitVals(s, j1, j2), 0)
                      ELSE ExpVal(DigitVals(s, j1, j2), 0)) - nfrac))

FloatExpFrom(s, neg, digits, nfrac, eneg, j1) ==
    FloatExpDigits(s, neg, digits, nfrac, eneg, j1, DigitsEnd(s, j1))

FloatExp(s, neg, digits, nfrac, j0) ==
    FloatExpFrom(s, neg, digits, nfrac, j0 <= Len(s) /\ s[j0] = "-",
                 IF j0 <= Len(s) /\ s[j0] \in {"+", "-"} THEN j0 + 1 ELSE j0)

\* the mantissa is read up to index i2: digits are its digits, nfrac of them
\* after the point
FloatMantissa(s, neg, digits, nfrac, i2) ==
    IF digits = <<>> THEN NumError("ParseFloat", s, ErrSyntax)
    ELSE IF i2 <= Len(s) /\ Lower(s[i2]) = "e"
    THEN FloatExp(s, neg, digits, nfrac, i2 + 1)
    ELSE IF i2 # Len(s) + 1 THEN NumError("ParseFloat", s, ErrSyntax)
    ELSE FloatResult(s, FloatNorm(neg, StripZeros(digits), 0 - nfrac))

FloatFraction(s, neg, i0, i1, i2) ==
    FloatMantissa(s, neg, DigitVals(s, i0, i1) \o DigitVals(s, i1 + 1, i2),
                  i2 - (i1 + 1), i2)

\* the digits before the point end at i1
FloatInteger(s, neg, i0, i1) ==
    IF i1 <= Len(s) /\ s[i1] = "."
    THEN FloatFraction(s, neg, i0, i1, DigitsEnd(s, i1 + 1))
    ELSE FloatMantissa(s, neg, DigitVals(s, i0, i1), 0, i1)

\* body is s without its sign, in lower case
FloatSigned(s, signed, neg, body) ==
    IF body \in {<<"i", "n", "f">>, <<"i", "n", "f", "i", "n", "i", "t", "y">>}
    THEN Ok(FloatInf(neg))
    ELSE IF ~signed /\ body = <<"n", "a", "n">> THEN Ok(FloatNaN)
    ELSE FloatInteger(s, neg, IF signed THEN 2 ELSE 1,
                      DigitsEnd(s, IF signed THEN 2 ELSE 1))

FloatSign(s, signed) ==
    FloatSigned(s, signed, s # <<>> /\ s[1] = "-",
                LowerStr(IF signed THEN Tail(s) ELSE s))

ParseFloat(s) == FloatSign(s, s # <<>> /\ s[1] \in {"+", "-"})

----------------------------------------------------------------------------
(* The converters of envy.go (type caster[T] func(string) (T, error))       *)

castString(s) == Ok(s)

\* if err != nil { return 0, err }; return i, nil
Checked(r) == IF ~r.ok THEN r ELSE Ok(r.v)

castInt64(s) == Checked(ParseInt(s, 64))

castUint64(s) == Checked(ParseUint(s, 64))

\* castUint checking the range of uint, as strconv.ParseUint(s, 10, 0) does
castUint_Checked(s, uintSize) ==
    IF castUint64(s).ok /\ ~MagLess(castUint64(s).v.mag, Pow2(uintSize))
    THEN NumError("ParseUint", s, ErrRange)
    ELSE IF castUint64(s).ok THEN Ok(IntV(FALSE, castUint64(s).v.mag))
    ELSE castUint64(s)

\* uint(i): the low uintSize bits of i
Narrowed(r, uintSize) ==
    IF ~r.ok THEN r ELSE Ok(IntV(FALSE, MagMod(r.v.mag, Pow2(uintSize))))

castUint(s, uintSize) == Narrowed(castUint64(s), uintSize)

castFloat64(s) == Checked(ParseFloat(s))

\* castDuration taking a count followed by "s" for as many seconds
castDuration_Units(s) ==
    IF Len(s) > 1 /\ s[Len(s)] = "s" /\ castInt64(SubSeq(s, 1, Len(s) - 1)).ok
    THEN Ok(IntV(castInt64(SubSeq(s, 1, Len(s) - 1)).v.neg,
                 StripZeros(castInt64(SubSeq(s, 1, Len(s) - 1)).v.mag
                            \o <<0, 0, 0, 0, 0, 0, 0, 0, 0>>)))
    ELSE Checked(castInt64(s))

\* time.Duration(i): the same 64-bit count, of nanoseconds
castDuration(s) == Checked(castInt64(s))

\* the converter each binder and accessor hands on, by name
Casters == {"castString", "strconv.Atoi", "castInt64", "castUint", "castUint64",
            "castFloat64", "strconv.ParseBool", "castDuration"}

Cast(cast, s, w) ==
    CASE cast = "castString" -> castString(s)
      [] cast = "strconv.Atoi" -> Atoi(s, w)
      [] cast = "castInt64" -> castInt64(s)
      [] cast = "castUint" -> castUint(s, w)
      [] cast = "castUint64" -> castUint64(s)
      [] cast = "castFloat64" -> castFloat64(s)
      [] cast = "strconv.ParseBool" -> ParseBool(s)
      [] cast = "castDuration" -> castDuration(s)

----------------------------------------------------------------------------
(* The environment and the generic primitives                               *)

\* a variable of the environment: set to a string, or not there
Set(s) == [present |-> TRUE, v |-> s]
Absent == [present |-> FALSE, v |-> <<>>]

\* os.LookupEnv(name): (value, ok)
LookupEnv(e, name) == [v |-> e[name].v, ok |-> e[name].present]

NoPanic ==
    [panicked |-> FALSE, variable |-> "", type |-> "",
     err |-> [func |-> "", num |-> <<>>, err |-> ""]]

\* failCast leaving the underlying error out of what it panics with
failCast_NoCause(T, variable, err) ==
    [panicked |-> TRUE, variable |-> variable, type |-> T,
     err |-> [func |-> "", num |-> <<>>, err |-> ""]]

\* failCast[T](variable, err): the value it panics with,
\* "failed to parse <variable> as <T>: <err>"
failCast(T, variable, err) ==
    [panicked |-> TRUE, variable |-> variable, type |-> T, err |-> err]

\* valueOf with an empty value taken for an unset variable, as a lookup by
\* os.Getenv would have it
valueOf_EmptyIsUnset(T, name, defaultValue, l, c) ==
    IF ~l.ok \/ l.v = <<>>
    THEN [returned |-> TRUE, ret |-> defaultValue, panic |-> NoPanic,
          casts |-> <<>>]
    ELSE IF ~c.ok
    THEN [returned |-> FALSE, ret |-> Zero(T),
          panic |-> failCast(T, name, c.err), casts |-> <<l.v>>]
    ELSE [returned |-> TRUE, ret |-> V(T, c.v), panic |-> NoPanic,
          casts |-> <<l.v>>]

\* valueOf returning the default when the conversion fails
valueOf_DefaultOnFailure(T, name, defaultValue, l, c) ==
    IF ~l.ok \/ ~c.ok
    THEN [returned |-> TRUE, ret |-> defaultValue, panic |-> NoPanic,
          casts |-> IF l.ok THEN <<l.v>> ELSE <<>>]
    ELSE [returned |-> TRUE, ret |-> V(T, c.v), panic |-> NoPanic,
          casts |-> <<l.v>>]

\* value[T](name, value, convert): whether it returns and what, the panic that
\* leaves it otherwise, and the strings the converter was run on.  valueOf is
\* its body after s, ok := os.LookupEnv(name); c is convert(s), run only when
\* it is asked for.
valueOf(T, name, defaultValue, l, c) ==
    IF ~l.ok
    THEN [returned |-> TRUE, ret |-> defaultValue, panic |-> NoPanic,
          casts |-> <<>>]
    ELSE IF ~c.ok
    THEN [returned |-> FALSE, ret |-> Zero(T),
          panic |-> failCast(T, name, c.err), casts |-> <<l.v>>]
    ELSE [returned |-> TRUE, ret |-> V(T, c.v), panic |-> NoPanic,
          casts |-> <<l.v>>]

value(e, w, T, name, defaultValue, convert) ==
    valueOf(T, name, defaultValue, LookupEnv(e, name),
            Cast(convert, LookupEnv(e, name).v, w))

\* setVarOf returning on an unset variable without assigning the default
setVarOf_SkipDefault(d, b, l, c) ==
    IF ~l.ok
    THEN [dest |-> d, writes |-> <<>>, panic |-> NoPanic, casts |-> <<>>]
    ELSE IF ~c.ok
    THEN [dest |-> d, writes |-> <<>>,
          panic |-> failCast(b.T, b.name, c.err), casts |-> <<l.v>>]
    ELSE [dest |-> [d EXCEPT ![b.addr] = V(b.T, c.v)],
          writes |-> <<[addr |-> b.addr, v |-> V(b.T, c.v)]>>,
          panic |-> NoPanic, casts |-> <<l.v>>]

\* setVarOf falling back to the default when the conversion fails
setVarOf_FallBack(d, b, l, c) ==
    IF ~l.ok \/ ~c.ok
    THEN [dest |-> [d EXCEPT ![b.addr] = b.defaultValue],
          writes |-> <<[addr |-> b.addr, v |-> b.defaultValue]>>,
          panic |-> NoPanic, casts |-> IF l.ok THEN <<l.v>> ELSE <<>>]
    ELSE [dest |-> [d EXCEPT ![b.addr] = V(b.T, c.v)],
          writes |-> <<[addr |-> b.addr, v |-> V(b.T, c.v)]>>,
          panic |-> NoPanic, casts |-> <<l.v>>]

\* setVarOf with an empty value taken for an unset variable
setVarOf_EmptyIsUnset(d, b, l, c) ==
    IF ~l.ok \/ l.v = <<>>
    THEN [dest |-> [d EXCEPT ![b.addr] = b.defaultValue],
          writes |-> <<[addr |-> b.addr, v |-> b.defaultValue]>>,
          panic |-> NoPanic, casts |-> <<>>]
    ELSE IF ~c.ok
    THEN [dest |-> d, writes |-> <<>>,
          panic |-> failCast(b.T, b.name, c.err), casts |-> <<l.v>>]
    ELSE [dest |-> [d EXCEPT ![b.addr] = V(b.T, c.v)],
          writes |-> <<[addr |-> b.addr, v |-> V(b.T, c.v)]>>,
          panic |-> NoPanic, casts |-> <<l.v>>]

\* setVarOf assigning the default first and the converted value over it
setVarOf_DefaultFirst(d, b, l, c) ==
    IF ~l.ok
    THEN [dest |-> [d EXCEPT ![b.addr] = b.defaultValue],
          writes |-> <<[addr |-> b.addr, v |-> b.defaultValue]>>,
          panic |-> NoPanic, casts |-> <<>>]
    ELSE IF ~c.ok
    THEN [dest |-> [d EXCEPT ![b.addr] = b.defaultValue],
          writes |-> <<[addr |-> b.addr, v |-> b.defaultValue]>>,
          panic |-> failCast(b.T, b.name, c.err), casts |-> <<l.v>>]
    ELSE [dest |-> [d EXCEPT ![b.addr] = V(b.T, c.v)],
          writes |-> <<[addr |-> b.addr, v |-> b.defaultValue],
                       [addr |-> b.addr, v |-> V(b.T, c.v)]>>,
          panic |-> NoPanic, casts |-> <<l.v>>]

\* setVar[T](addr, name, defaultValue, cast) on destinations d, b the
\* arguments: the destinations it leaves, the writes it made to them, the
\* panic that left it, if any, and the strings the converter was run on.
\* setVarOf is its body after v, ok := os.LookupEnv(name); c is cast(v).
setVarOf(d, b, l, c) ==
    IF ~l.ok
    THEN [dest |-> [d EXCEPT ![b.addr] = b.defaultValue],
          writes |-> <<[addr |-> b.addr, v |-> b.defaultValue]>>,
          panic |-> NoPanic, casts |-> <<>>]
    ELSE IF ~c.ok
    THEN [dest |-> d, writes |-> <<>>,
          panic |-> failCast(b.T, b.name, c.err), casts |-> <<l.v>>]
    ELSE [dest |-> [d EXCEPT ![b.addr] = V(b.T, c.v)],
          writes |-> <<[addr |-> b.addr, v |-> V(b.T, c.v)]>>,
          panic |-> NoPanic, casts |-> <<l.v>>]

setVar(e, w, d, b) ==
    setVarOf(d, b, LookupEnv(e, b.name), Cast(b.cast, LookupEnv(e, b.name).v, w))

\* queueSetVar running setVar at once and queueing nothing
queueSetVar_Immediate(q, e, w, d, b) == [vars |-> q, dest |-> setVar(e, w, d, b).dest]

\* queueSetVar looking the variable up at once and keeping what it found as
\* the binding's default
queueSetVar_Eager(q, e, w, d, b) ==
    [vars |-> Append(q, IF LookupEnv(e, b.name).ok
                           /\ Cast(b.cast, LookupEnv(e, b.name).v, w).ok
                        THEN [b EXCEPT !.defaultValue =
                                  V(b.T, Cast(b.cast, LookupEnv(e, b.name).v, w).v)]
                        ELSE b),
     dest |-> d]

\* queueSetVar putting the binding at the head of the queue
queueSetVar_Prepend(q, e, w, d, b) == [vars |-> <<b>> \o q, dest |-> d]

\* queueSetVar[T](addr, name, defaultValue, cast), b the closure
\* func() { setVar(addr, name, defaultValue, cast) }: the queue and the
\* destinations it leaves.  It appends b and neither reads e nor writes d.
queueSetVar(q, e, w, d, b) == [vars |-> Append(q, b), dest |-> d]

RECURSIVE ParseFrom(_, _, _, _, _, _)

\* the loop's body going on to the next binding after a panic
ParseNext_KeepGoing(q, i, e, w, log, r) ==
    ParseFrom(q, i + 1, e, w, r.dest,
              Append(log, [i |-> i, writes |-> r.writes,
                           casts |-> r.casts, panic |-> r.panic]))

\* for _, fn := range vars { fn() }, from index i on: each call fn() is logged
\* with its index in the queue, its writes, its converter runs and its panic;
\* a panic ends the loop.  Ranging over vars leaves vars as it is.
\* ParseNext is the loop's body once fn() has run with outcome r.
ParseNext(q, i, e, w, log, r) ==
    IF r.panic.panicked
    THEN [vars |-> q, dest |-> r.dest, panic |-> r.panic,
          log |-> Append(log, [i |-> i, writes |-> r.writes,
                               casts |-> r.casts, panic |-> r.panic])]
    ELSE ParseFrom(q, i + 1, e, w, r.dest,
                   Append(log, [i |-> i, writes |-> r.writes,
                                casts |-> r.casts, panic |-> r.panic]))

ParseFrom(q, i, e, w, d, log) ==
    IF i > Len(q) THEN [vars |-> q, dest |-> d, log |-> log, panic |-> NoPanic]
    ELSE ParseNext(q, i, e, w, log, setVar(e, w, d, q[i]))

RECURSIVE ParseDown(_, _, _, _, _, _)

\* the loop from the last binding down to the first
ParseDownNext(q, i, e, w, log, r) ==
    IF r.panic.panicked
    THEN [vars |-> q, dest |-> r.dest, panic |-> r.panic,
          log |-> Append(log, [i |-> i, writes |-> r.writes,
                               casts |-> r.casts, panic |-> r.panic])]
    ELSE ParseDown(q, i - 1, e, w, r.dest,
                   Append(log, [i |-> i, writes |-> r.writes,
                                casts |-> r.casts, panic |-> r.panic]))

ParseDown(q, i, e, w, d, log) ==
    IF i < 1 THEN [vars |-> q, dest |-> d, log |-> log, panic |-> NoPanic]
    ELSE ParseDownNext(q, i, e, w, log, setVar(e, w, d, q[i]))

RunParse_Reversed(q, e, w, d) == ParseDown(q, Len(q), e, w, d, <<>>)

\* Parse emptying the queue it ran
RunParse_Drain(q, e, w, d) == [ParseFrom(q, 1, e, w, d, <<>>) EXCEPT !.vars = <<>>]

\* Parse discarding from the queue the bindings it ran
Consumed(q, r) == [r EXCEPT !.vars = SubSeq(q, Len(r.log) + 1, Len(q))]

RunParse_Consume(q, e, w, d) == Consumed(q, ParseFrom(q, 1, e, w, d, <<>>))

\* Parse taking an empty queue for an error
RunParse_EmptyIsError(q, e, w, d) ==
    IF q = <<>>
    THEN [vars |-> q, dest |-> d, log |-> <<>>,
          panic |-> [panicked |-> TRUE, variable |-> "", type |-> "",
                     err |-> [func |-> "Parse", num |-> <<>>,
                              err |-> "no variables registered"]]]
    ELSE ParseFrom(q, 1, e, w, d, <<>>)

\* Parse resuming, after a call that panicked, at the binding that failed
RunParse_Resume(q, e, w, d) ==
    ParseFrom(q, IF last.op = "Parse" /\ last.panic.panicked
                 THEN Len(last.log) ELSE 1,
              e, w, d, <<>>)

\* Parse() on queue q
RunParse(q, e, w, d) == ParseFrom(q, 1, e, w, d, <<>>)

----------------------------------------------------------------------------
(* The bounds of the model                                                  *)

\* the longest queue explored: MaxQueue where both destinations are ints on
\* a 64-bit platform, MaxQueueTyped where A is of another type or the platform
\* is a 32-bit one (the bindings of the eight types differ in their converter
\* alone, and the order of the queue has nothing to do with the width of int)
MaxQueue == 3
MaxQueueTyped == 1

QueueBound(typing, w) ==
    IF w = 64 /\ \A a \in DOMAIN typing : typing[a] = "int"
    THEN MaxQueue ELSE MaxQueueTyped

Names == {"FOO", "BAR"}

Addrs == {"A", "B"}

\* the values the environment gives a variable: the empty string, "1", which
\* every converter accepts, and "abc", which castString alone accepts
Strings == {<<>>, <<"1">>, <<"a", "b", "c">>}

EnvValues == {Absent} \cup {Set(s) : s \in Strings}

WordSizes == {32, 64}

\* the defaults the callers pass, two of each type
Defaults(T) ==
    CASE T = "string" -> <<V(T, <<"d">>), V(T, <<"1">>)>>
      [] T = "bool" -> <<V(T, FALSE), V(T, TRUE)>>
      [] T = "float64" -> <<V(T, FloatV(FALSE, <<2, 5>>, -1)), V(T, FloatV(TRUE, <<7>>, 0))>>
      [] T = "int" -> <<V(T, IntV(FALSE, <<2>>)), V(T, IntV(TRUE, <<7>>))>>
      [] T = "int64" -> <<V(T, IntV(FALSE, <<2>>)), V(T, IntV(TRUE, <<7>>))>>
      [] T = "time.Duration" -> <<V(T, IntV(FALSE, <<2>>)), V(T, IntV(TRUE, <<7>>))>>
      [] OTHER -> <<V(T, IntV(FALSE, <<2>>)), V(T, IntV(FALSE, <<7>>))>>

\* the program asks for each variable with one default: the first for FOO,
\* the second for BAR
DefaultFor(T, name) == Defaults(T)[IF name = "FOO" THEN 1 ELSE 2]

\* the declarations of the two destinations: A of any type, B an int
Typings == {f \in [Addrs -> Types] : f["B"] = "int"}

----------------------------------------------------------------------------
(* The state machine                                                        *)

Init ==
    /\ env \in [Names -> EnvValues]
    /\ vars = <<>>
    /\ atype \in Typings
    /\ dest = [a \in Addrs |-> Zero(atype[a])]
    /\ wordSize \in WordSizes
    /\ last = [op |-> "start"]
    /\ threads = <<>>

\* a binder: T its type, cast the converter it passes to queueSetVar
Binder(op, T, cast) ==
    \E addr \in Addrs, name \in Names :
        /\ atype[addr] = T
        /\ Len(vars) < QueueBound(atype, wordSize)
        /\ LET r == queueSetVar(vars, env, wordSize, dest,
                                [T |-> T, addr |-> addr, name |-> name,
                                 defaultValue |-> DefaultFor(T, name),
                                 cast |-> cast])
           IN  /\ vars' = r.vars
               /\ dest' = r.dest
               /\ last' = [op |-> op]
        /\ UNCHANGED <<env, atype, wordSize, threads>>

StringVar == Binder("StringVar", "string", "castString")
IntVar == Binder("IntVar", "int", "strconv.Atoi")
Int64Var == Binder("Int64Var", "int64", "castInt64")
UintVar == Binder("UintVar", "uint", "castUint")
Uint64Var == Binder("Uint64Var", "uint64", "castUint64")
Float64Var == Binder("Float64Var", "float64", "castFloat64")
BoolVar == Binder("BoolVar", "bool", "strconv.ParseBool")
DurationVar == Binder("DurationVar", "time.Duration", "castDuration")

\* what came right before a call of Parse: a Parse that returned, a Parse
\* that panicked (the caller recovered), a change of the environment, made
\* after such a panic ("corrected") or not, or anything else
PrevKind(l) ==
    IF l.op = "Parse" THEN (IF l.panic.panicked THEN "panic" ELSE "Parse")
    ELSE IF l.op = "environment"
    THEN (IF l.after = "panic" THEN "corrected" ELSE "environment")
    ELSE "other"

\* what a change of the environment came after: a Parse that panicked, with
\* changes of the environment alone since, or anything else
Since(l) ==
    IF l.op = "Parse" THEN (IF l.panic.panicked THEN "panic" ELSE "other")
    ELSE IF l.op = "environment" THEN l.after
    ELSE "other"

Parse ==
    \E r \in {RunParse(vars, env, wordSize, dest)} :
        /\ vars' = r.vars
        /\ dest' = r.dest
        /\ last' = [op |-> "Parse", log |-> r.log, panic |-> r.panic,
                    prev |-> PrevKind(last)]
        /\ UNCHANGED <<env, atype, wordSize, threads>>

\* an accessor keeping what it returned in a destination of its type
Accessor_Stores(op, T, convert) ==
    \E name \in Names, a \in Addrs :
        /\ atype[a] = T
        /\ \E r \in {value(env, wordSize, T, name, DefaultFor(T, name), convert)} :
              /\ last' = [op |-> op, T |-> T, name |-> name,
                          defaultValue |-> DefaultFor(T, name),
                          convert |-> convert,
                          returned |-> r.returned, ret |-> r.ret,
                          panic |-> r.panic, casts |-> r.casts]
              /\ dest' = IF r.returned THEN [dest EXCEPT ![a] = r.ret] ELSE dest
        /\ UNCHANGED <<env, vars, atype, wordSize, threads>>

\* an accessor: T its type, convert the converter it passes to value
Accessor(op, T, convert) ==
    \E name \in Names :
        /\ \E a \in Addrs : atype[a] = T
        /\ \E r \in {value(env, wordSize, T, name, DefaultFor(T, name), convert)} :
              last' = [op |-> op, T |-> T, name |-> name,
                       defaultValue |-> DefaultFor(T, name),
                       convert |-> convert,
                       returned |-> r.returned, ret |-> r.ret,
                       panic |-> r.panic, casts |-> r.casts]
        /\ UNCHANGED <<env, vars, dest, atype, wordSize, threads>>

String == Accessor("String", "string", "castString")
\* (Int is taken by the Integers module)
Int_ == Accessor("Int", "int", "strconv.Atoi")
Int64 == Accessor("Int64", "int64", "castInt64")
Uint == Accessor("Uint", "uint", "castUint")
Uint64 == Accessor("Uint64", "uint64", "castUint64")
Float64 == Accessor("Float64", "float64", "castFloat64")
Bool == Accessor("Bool", "bool", "strconv.ParseBool")
Duration == Accessor("Duration", "time.Duration", "castDuration")

\* the environment changes under the program: a variable is set or changed ...
Setenv ==
    \E name \in Names, s \in Strings :
        /\ env[name] # Set(s)
        /\ env' = [env EXCEPT ![name] = Set(s)]
        /\ last' = [op |-> "environment", after |-> Since(last)]
        /\ UNCHANGED <<vars, dest, atype, wordSize, threads>>

\* ... or unset
Unsetenv ==
    \E name \in Names :
        /\ env[name].present
        /\ env' = [env EXCEPT ![name] = Absent]
        /\ last' = [op |-> "environment", after |-> Since(last)]
        /\ UNCHANGED <<vars, dest, atype, wordSize, threads>>

----------------------------------------------------------------------------
(* The integer converters on the values at the edges of their ranges: the   *)
(* accessors Int64, Uint, Uint64 and Duration called in an environment drawn *)
(* from CastStrings.                                                         *)

\* values around 2^32, 2^63 and 2^64, signed and unsigned, and some that are
\* not base-10 integers
CastStrings ==
    {<<>>,
     <<"0">>,
     <<"1">>,
     <<"+", "1">>,
     <<"-", "1">>,
     <<"0", "0", "7">>,
     <<"a", "b", "c">>,
     <<"5", "s">>,
     <<"5", "0", "0", "0", "0", "0", "0", "0", "0", "0">>,
     <<"4", "2", "9", "4", "9", "6", "7", "2", "9", "5">>,
     <<"4", "2", "9", "4", "9", "6", "7", "2", "9", "6">>,
     <<"4", "2", "9", "4", "9", "6", "7", "2", "9", "7">>,
     <<"9", "2", "2", "3", "3", "7", "2", "0", "3", "6", "8", "5", "4", "7", "7", "5", "8", "0", "7">>,
     <<"9", "2", "2", "3", "3", "7", "2", "0", "3", "6", "8", "5", "4", "7", "7", "5", "8", "0", "8">>,
     <<"-", "9", "2", "2", "3", "3", "7", "2", "0", "3", "6", "8", "5", "4", "7", "7", "5", "8", "0", "8">>,
     <<"-", "9", "2", "2", "3", "3", "7", "2", "0", "3", "6", "8", "5", "4", "7", "7", "5", "8", "0", "9">>,
     <<"1", "8", "4", "4", "6", "7", "4", "4", "0", "7", "3", "7", "0", "9", "5", "5", "1", "6", "1", "5">>,
     <<"1", "8", "4", "4", "6", "7", "4", "4", "0", "7", "3", "7", "0", "9", "5", "5", "1", "6", "1", "6">>}

CastTypings == {f \in Typings : f["A"] \in {"int64", "uint", "uint64", "time.Duration"}}

InitCast ==
    /\ env \in [Names -> {Absent} \cup {Set(s) : s \in CastStrings}]
    /\ vars = <<>>
    /\ atype \in CastTypings
    /\ dest = [a \in Addrs |-> Zero(atype[a])]
    /\ wordSize \in WordSizes
    /\ last = [op |-> "start"]
    /\ threads = <<>>

NextCast == Int64 \/ Uint \/ Uint64 \/ Duration

SpecCast == InitCast /\ [][NextCast]_state

----------------------------------------------------------------------------
(* Registration from two goroutines.  vars = append(vars, fn) takes no lock: *)
(* it reads the shared slice, and then stores the slice with fn at its end.  *)
(* Each goroutine makes one binder call, for a destination of its own, and   *)
(* Parse is called when both calls are over.                                 *)

Threads == {1, 2}

\* the destination a goroutine binds
AddrOf(t) == IF t = 1 THEN "A" ELSE "B"

\* the binder for a destination of type T, and the caster it passes on
BinderFor(T) ==
    CASE T = "string" -> [op |-> "StringVar", cast |-> "castString"]
      [] T = "int" -> [op |-> "IntVar", cast |-> "strconv.Atoi"]
      [] T = "int64" -> [op |-> "Int64Var", cast |-> "castInt64"]
      [] T = "uint" -> [op |-> "UintVar", cast |-> "castUint"]
      [] T = "uint64" -> [op |-> "Uint64Var", cast |-> "castUint64"]
      [] T = "float64" -> [op |-> "Float64Var", cast |-> "castFloat64"]
      [] T = "bool" -> [op |-> "BoolVar", cast |-> "strconv.ParseBool"]
      [] T = "time.Duration" -> [op |-> "DurationVar", cast |-> "castDuration"]

\* the closure the call of goroutine t queues, for the variable name
ClosureOf(typing, t, name) ==
    [T |-> typing[AddrOf(t)], addr |-> AddrOf(t), name |-> name,
     defaultValue |-> DefaultFor(typing[AddrOf(t)], name),
     cast |-> BinderFor(typing[AddrOf(t)]).cast]

\* append storing only the new closure
appendWrite_Reset(local, b) == <<b>>

\* the operand of append(vars, fn): the slice as it is read
appendRead(q) == q

\* the assignment vars = append(...): the slice read, with fn at its end
appendWrite(local, b) == Append(local, b)

InitRace ==
    /\ env \in [Names -> EnvValues]
    /\ vars = <<>>
    /\ atype \in Typings
    /\ dest = [a \in Addrs |-> Zero(atype[a])]
    /\ wordSize \in WordSizes
    /\ last = [op |-> "start"]
    /\ \E n \in [Threads -> Names] :
          threads = [t \in Threads |->
                        [pc |-> "call", b |-> ClosureOf(atype, t, n[t]),
                         local |-> <<>>, after |-> {}]]

\* goroutine t enters its binder and reads vars; after: the goroutines whose
\* calls were over by then
Load(t) ==
    /\ threads[t].pc = "call"
    /\ threads' = [threads EXCEPT
                      ![t] = [pc |-> "append", b |-> threads[t].b,
                              local |-> appendRead(vars),
                              after |-> {u \in Threads : threads[u].pc = "done"}]]
    /\ UNCHANGED <<env, vars, dest, atype, wordSize, last>>

\* goroutine t stores the slice it built, and its binder returns
Store(t) ==
    /\ threads[t].pc = "append"
    /\ vars' = appendWrite(threads[t].local, threads[t].b)
    /\ threads' = [threads EXCEPT ![t].pc = "done"]
    /\ last' = [op |-> BinderFor(threads[t].b.T).op]
    /\ UNCHANGED <<env, dest, atype, wordSize>>

\* Parse, called when both binder calls are over
ParseJoined ==
    /\ \A t \in Threads : threads[t].pc = "done"
    /\ Parse

NextRace ==
    \/ \E t \in Threads : Load(t)
    \/ \E t \in Threads : Store(t)
    \/ ParseJoined

SpecRace == InitRace /\ [][NextRace]_state

----------------------------------------------------------------------------
(* Sequential use: binders, Parse and accessors called one after another,   *)
(* in an environment that changes between the calls                         *)

Next ==
    \/ StringVar \/ IntVar \/ Int64Var \/ UintVar \/ Uint64Var
    \/ Float64Var \/ BoolVar \/ DurationVar
    \/ Parse
    \/ String \/ Int_ \/ Int64 \/ Uint \/ Uint64 \/ Float64 \/ Bool \/ Duration
    \/ Setenv \/ Unsetenv

Spec == Init /\ [][Next]_state

----------------------------------------------------------------------------
(* The vocabulary of the properties                                         *)

BinderOps == {"StringVar", "IntVar", "Int64Var", "UintVar", "Uint64Var",
              "Float64Var", "BoolVar", "DurationVar"}

AccessorOps == {"String", "Int", "Int64", "Uint", "Uint64", "Float64", "Bool",
                "Duration"}

\* the converter cast reports a failure on the value e gives to name
FailsIn(e, cast, name) == e[name].present /\ ~Cast(cast, e[name].v, wordSize).ok

\* what a variable of type T resolves to in e: the default when it is unset,
\* the converted value otherwise
ResolvedIn(e, T, cast, name) ==
    IF ~e[name].present THEN DefaultFor(T, name)
    ELSE V(T, Cast(cast, e[name].v, wordSize).v)

\* a write of v to the destination of binding b, and nothing else
OneWrite(b, v) == <<[addr |-> b.addr, v |-> v]>>

\* no entry of log after the k-th belongs to a binding of q on b's destination
LastOn(q, log, k) ==
    \A j \in (k + 1)..Len(log) : q[log[j].i].addr # q[log[k].i].addr

\* the content of destination a once the writes of the first n entries of log
\* have been made over d
RECURSIVE After(_, _, _, _)
After(log, n, a, d) ==
    IF n = 0 THEN d[a]
    ELSE IF \E j \in 1..Len(log[n].writes) : log[n].writes[j].addr = a
    THEN log[n].writes[Len(log[n].writes)].v
    ELSE After(log, n - 1, a, d)

\* all the writes of a run of Parse, in order
RECURSIVE Writes(_)
Writes(log) == IF log = <<>> THEN <<>> ELSE log[1].writes \o Writes(Tail(log))

\* how many writes of a run went to destination a
WritesTo(log, a) ==
    Cardinality({j \in 1..Len(Writes(log)) : Writes(log)[j].addr = a})

\* how many bindings of q on destination a ran to their end in a run
Succeeded(q, log, a) ==
    Cardinality({k \in 1..Len(log) :
                    q[log[k].i].addr = a /\ ~log[k].panic.panicked})

\* the first binding of the queue whose conversion fails in the environment
FirstFailing ==
    CHOOSE k \in 1..Len(vars) :
        /\ FailsIn(env, vars[k].cast, vars[k].name)
        /\ \A j \in 1..(k - 1) : ~FailsIn(env, vars[j].cast, vars[j].name)

----------------------------------------------------------------------------
(* The properties                                                           *)

\* C1: when the variable is absent from the environment the supplied default
\* is the result, the converter is not run and nothing panics: an accessor
\* returns the default, and a binding run by Parse makes exactly one write,
\* of the default, to its destination, which holds it unless a later binding
\* of the same run wrote there.
C1_AbsentYieldsDefault ==
    /\ (last.op \in AccessorOps /\ ~env[last.name].present) =>
          /\ last.returned
          /\ last.ret = last.defaultValue
          /\ last.casts = <<>>
          /\ ~last.panic.panicked
    /\ last.op = "Parse" =>
          \A k \in 1..Len(last.log) :
              ~env[vars[last.log[k].i].name].present =>
                  /\ last.log[k].writes =
                        OneWrite(vars[last.log[k].i],
                                 vars[last.log[k].i].defaultValue)
                  /\ last.log[k].casts = <<>>
                  /\ ~last.log[k].panic.panicked
                  /\ LastOn(vars, last.log, k) =>
                        dest[vars[last.log[k].i].addr] =
                            vars[last.log[k].i].defaultValue

\* Parse has run a Duration binding whose variable is absent, and the
\* destination holds the default, which is not the type's zero value
C1_Witness ==
    /\ last.op = "Parse"
    /\ Len(vars) = 1
    /\ Len(last.log) = 1
    /\ vars[1].T = "time.Duration"
    /\ ~env[vars[1].name].present
    /\ dest[vars[1].addr] = vars[1].defaultValue
    /\ dest[vars[1].addr] # Zero("time.Duration")

\* C2: Parse runs the bindings in the order of their registration, one after
\* the other (the k-th call it makes is the k-th binding of the queue), and
\* when it returns every binding has run and each destination holds what the
\* last-registered binding on it wrote.
C2_RegistrationOrder ==
    last.op = "Parse" =>
        /\ Len(last.log) <= Len(vars)
        /\ \A k \in 1..Len(last.log) : last.log[k].i = k
        /\ ~last.panic.panicked =>
              /\ Len(last.log) = Len(vars)
              /\ \A k \in 1..Len(vars) :
                    /\ Len(last.log[k].writes) = 1
                    /\ last.log[k].writes[1].addr = vars[k].addr
                    /\ (\A j \in (k + 1)..Len(vars) : vars[j].addr # vars[k].addr)
                          => dest[vars[k].addr] = last.log[k].writes[1].v

\* three bindings, the first and the third on one destination with different
\* values: the destination holds the third's
C2_Witness ==
    /\ last.op = "Parse"
    /\ ~last.panic.panicked
    /\ Len(vars) = 3
    /\ vars[1].addr = vars[3].addr
    /\ vars[2].addr # vars[3].addr
    /\ last.log[1].writes[1].v # last.log[3].writes[1].v
    /\ dest[vars[3].addr] = last.log[3].writes[1].v

\* C3: a binder call changes no destination and leaves the environment alone;
\* all it does is append to the queue a binding made of its own arguments
\* (nothing of it comes from the environment), so it cannot panic on a value
\* of the environment.  Destinations change in Parse alone.
C3_BinderDefers ==
    [][/\ dest' # dest => last'.op = "Parse"
       /\ last'.op \in BinderOps =>
             /\ dest' = dest
             /\ env' = env
             /\ Len(vars') = Len(vars) + 1
             /\ SubSeq(vars', 1, Len(vars)) = vars
             /\ vars'[Len(vars')].T = atype[vars'[Len(vars')].addr]
             /\ vars'[Len(vars')].defaultValue =
                   DefaultFor(vars'[Len(vars')].T, vars'[Len(vars')].name)]_state

\* a binder has just been called for a variable that is set, to a value its
\* converter rejects, and every destination still holds its zero value
C3_Witness ==
    /\ last.op \in BinderOps
    /\ Len(vars) = 1
    /\ FailsIn(env, vars[1].cast, vars[1].name)
    /\ \A a \in Addrs : dest[a] = Zero(atype[a])

\* C4: when the variable is present and the converter reports a failure the
\* call panics: an accessor does not return, and a binding run by Parse
\* panics without a write, is the last one Parse runs, and leaves in its
\* destination what was there when it started.
C4_FailurePanics ==
    [][/\ (last'.op \in AccessorOps /\ FailsIn(env', last'.convert, last'.name)) =>
             /\ ~last'.returned
             /\ last'.panic.panicked
             /\ last'.panic.variable = last'.name
             /\ last'.panic.type = last'.T
       /\ last'.op = "Parse" =>
             \A k \in 1..Len(last'.log) :
                 FailsIn(env, vars[last'.log[k].i].cast, vars[last'.log[k].i].name) =>
                     /\ last'.log[k].panic.panicked
                     /\ last'.log[k].panic.variable = vars[last'.log[k].i].name
                     /\ last'.log[k].panic.type = vars[last'.log[k].i].T
                     /\ last'.log[k].writes = <<>>
                     /\ k = Len(last'.log)
                     /\ last'.panic = last'.log[k].panic
                     /\ dest'[vars[last'.log[k].i].addr] =
                           After(last'.log, k - 1, vars[last'.log[k].i].addr, dest)]_state

\* Parse has panicked in a binding whose destination holds a value parsed by
\* an earlier run: neither the zero value nor the default
C4_Witness ==
    /\ last.op = "Parse"
    /\ last.panic.panicked
    /\ Len(last.log) = 1
    /\ dest[vars[1].addr] # Zero(vars[1].T)
    /\ dest[vars[1].addr] # vars[1].defaultValue

\* C5: when the k-th binding is the first whose conversion fails, Parse
\* panics having run bindings 1..k and no other: bindings 1..k-1 have each
\* written the value they resolved, binding k has written nothing, and every
\* destination holds what those k-1 writes left in it.
C5_PartialApplication ==
    [][(/\ last'.op = "Parse"
        /\ \E i \in 1..Len(vars) : FailsIn(env, vars[i].cast, vars[i].name)) =>
           /\ last'.panic.panicked
           /\ Len(last'.log) = FirstFailing
           /\ \A j \in 1..FirstFailing : last'.log[j].i = j
           /\ \A j \in 1..(FirstFailing - 1) :
                 last'.log[j].writes =
                     OneWrite(vars[j], ResolvedIn(env, vars[j].T, vars[j].cast,
                                                  vars[j].name))
           /\ last'.log[FirstFailing].writes = <<>>
           /\ \A a \in Addrs :
                 dest'[a] = After(last'.log, FirstFailing - 1, a, dest)]_state

\* of three bindings the second failed: the first destination is written, the
\* second destination and the third binding are not
C5_Witness ==
    /\ last.op = "Parse"
    /\ last.panic.panicked
    /\ Len(vars) = 3
    /\ Len(last.log) = 2
    /\ vars[1].addr # vars[2].addr
    /\ vars[3].addr = vars[2].addr
    /\ ~FailsIn(env, vars[3].cast, vars[3].name)
    /\ dest[vars[1].addr] = last.log[1].writes[1].v
    /\ dest[vars[1].addr] # Zero(vars[1].T)
    /\ dest[vars[2].addr] = Zero(vars[2].T)

\* C6: a binding resolves against the environment as it is when Parse runs,
\* not when the binder was called: what each binding that ran to its end
\* wrote is the resolution of its variable in the environment of the Parse
\* call, with the default passed to the binder.
C6_ResolvedAtParse ==
    last.op = "Parse" =>
        \A k \in 1..Len(last.log) :
            ~last.log[k].panic.panicked =>
                /\ last.log[k].writes =
                      OneWrite(vars[k], ResolvedIn(env, vars[k].T, vars[k].cast,
                                                   vars[k].name))
                /\ (\A j \in (k + 1)..Len(last.log) : vars[j].addr # vars[k].addr)
                      => dest[vars[k].addr] =
                             ResolvedIn(env, vars[k].T, vars[k].cast, vars[k].name)

\* the environment changed between the registrations and the Parse call, and
\* the destinations hold the values of the environment as it is now
C6_Witness ==
    /\ last.op = "Parse"
    /\ last.prev = "environment"
    /\ ~last.panic.panicked
    /\ Len(vars) = 2
    /\ vars[1].addr = "A" /\ vars[1].name = "FOO"
    /\ vars[2].addr = "B" /\ vars[2].name = "BAR"
    /\ env["FOO"] = Set(<<"1">>)
    /\ ~env["BAR"].present
    /\ dest["A"] = V("int", IntV(FALSE, <<1>>))
    /\ dest["B"] = DefaultFor("int", "BAR")

\* C7: for the text type a variable set to the empty string resolves to the
\* empty string, not to the default, in the accessor and in a binding.
C7_EmptyText ==
    /\ (last.op = "String" /\ env[last.name] = Set(<<>>)) =>
          /\ last.returned
          /\ last.ret = V("string", <<>>)
          /\ ~last.panic.panicked
    /\ last.op = "Parse" =>
          \A k \in 1..Len(last.log) :
              (vars[last.log[k].i].T = "string"
               /\ env[vars[last.log[k].i].name] = Set(<<>>)) =>
                  /\ last.log[k].writes =
                        OneWrite(vars[last.log[k].i], V("string", <<>>))
                  /\ ~last.log[k].panic.panicked
                  /\ LastOn(vars, last.log, k) =>
                        dest[vars[last.log[k].i].addr] = V("string", <<>>)

\* a text binding of a variable set to the empty string has run, and its
\* destination holds the empty string, which is not its default
C7_Witness ==
    /\ last.op = "Parse"
    /\ Len(last.log) = 1
    /\ vars[1].T = "string"
    /\ env[vars[1].name] = Set(<<>>)
    /\ dest[vars[1].addr] = V("string", <<>>)
    /\ vars[1].defaultValue # V("string", <<>>)

\* C8: for every type but text a variable set to the empty string is a
\* conversion failure: the accessor panics, and so does the binding when
\* Parse runs it, writing nothing.
C8_EmptyNonText ==
    /\ (last.op \in AccessorOps \ {"String"} /\ env[last.name] = Set(<<>>)) =>
          /\ ~last.returned
          /\ last.panic.panicked
          /\ last.casts = << <<>> >>
    /\ last.op = "Parse" =>
          /\ \A k \in 1..Len(last.log) :
                (vars[last.log[k].i].T # "string"
                 /\ env[vars[last.log[k].i].name] = Set(<<>>)) =>
                    /\ last.log[k].panic.panicked
                    /\ last.log[k].writes = <<>>
          /\ (\E i \in 1..Len(vars) :
                 vars[i].T # "string" /\ env[vars[i].name] = Set(<<>>))
                => last.panic.panicked

\* Parse has panicked in a bool binding of a variable set to the empty string
C8_Witness ==
    /\ last.op = "Parse"
    /\ Len(vars) = 1
    /\ vars[1].T = "bool"
    /\ env[vars[1].name] = Set(<<>>)
    /\ last.panic.panicked
    /\ last.panic.type = "bool"
    /\ dest[vars[1].addr] = Zero("bool")

\* C9 as the specification states it: in one Parse call each destination
\* handle, be it passed to one binder or to several, is written at most once.
C9_AtMostOncePerHandle ==
    last.op = "Parse" => \A a \in Addrs : WritesTo(last.log, a) <= 1

\* C9: in one Parse call each binding runs at most once and writes at most
\* once, to its own destination and only when its resolution succeeded, so a
\* destination is written once for every binding registered on it that ran to
\* its end: a handle passed to m binders is written up to m times.
C9_OncePerBinding ==
    last.op = "Parse" =>
        /\ \A k \in 1..Len(last.log) :
              /\ last.log[k].i = k
              /\ Len(last.log[k].writes) =
                    (IF last.log[k].panic.panicked THEN 0 ELSE 1)
              /\ \A j \in 1..Len(last.log[k].writes) :
                    last.log[k].writes[j].addr = vars[k].addr
        /\ \A a \in Addrs : WritesTo(last.log, a) = Succeeded(vars, last.log, a)

\* one handle passed to three binders has been written three times by one
\* Parse call
C9_Witness ==
    /\ last.op = "Parse"
    /\ ~last.panic.panicked
    /\ Len(vars) = 3
    /\ \A k \in 1..3 : vars[k].addr = "A"
    /\ WritesTo(last.log, "A") = 3

\* C10: Parse does not clear the queue and every call runs all the bindings
\* again: a call that follows a call that returned, with the environment as
\* it was, makes the same writes and leaves the destinations as they are; and
\* whatever changed in between, a call that returns leaves in the destinations
\* the values resolved from the environment as it is now.
C10_ParseAgain ==
    [][last'.op = "Parse" =>
          /\ vars' = vars
          /\ Len(last'.log) >= (IF last'.panic.panicked THEN 1 ELSE Len(vars))
          /\ (last.op = "Parse" /\ ~last.panic.panicked) =>
                /\ last'.log = last.log
                /\ ~last'.panic.panicked
                /\ dest' = dest
          /\ ~last'.panic.panicked =>
                \A k \in 1..Len(vars) :
                    (\A j \in (k + 1)..Len(vars) : vars[j].addr # vars[k].addr)
                       => dest'[vars[k].addr] =
                              ResolvedIn(env', vars[k].T, vars[k].cast,
                                         vars[k].name)]_state

\* Parse has returned right after a Parse that returned, on a queue of three
\* bindings, and a destination holds a value taken from the environment
C10_Witness ==
    /\ last.op = "Parse"
    /\ last.prev = "Parse"
    /\ ~last.panic.panicked
    /\ Len(vars) = 3
    /\ Len(last.log) = 3
    /\ \E k \in 1..3 : env[vars[k].name].present
    /\ \E a \in Addrs : dest[a] = V("int", IntV(FALSE, <<1>>))

\* C11 as the specification states it: a binding is consumed and discarded
\* when Parse runs it, so that once Parse has returned the queue holds no
\* binding, and a Parse call that follows one that returned has nothing to run.
C11_ConsumedOnce ==
    last.op = "Parse" =>
        /\ ~last.panic.panicked => vars = <<>>
        /\ last.prev = "Parse" => last.log = <<>>

\* C11: a binding is created by one binder call and held by the queue, and it
\* stays there: a Parse call runs each binding of the queue at most once
\* (exactly once when the call returns) and leaves the queue as it found it,
\* so that a binding is run once by every Parse call that reaches it, and a
\* call that directly follows another runs as many bindings as that one did.
C11_RunOncePerParse ==
    [][last'.op = "Parse" =>
          /\ vars' = vars
          /\ \A k \in 1..Len(last'.log) : last'.log[k].i \in 1..Len(vars)
          /\ \A j, k \in 1..Len(last'.log) :
                last'.log[j].i = last'.log[k].i => j = k
          /\ ~last'.panic.panicked =>
                \A i \in 1..Len(vars) :
                    \E k \in 1..Len(last'.log) : last'.log[k].i = i
          /\ last.op = "Parse" => Len(last'.log) = Len(last.log)]_state

\* a second Parse call in a row has run both bindings of the queue again, and
\* they are still in the queue
C11_Witness ==
    /\ last.op = "Parse"
    /\ last.prev = "Parse"
    /\ Len(vars) = 2
    /\ Len(last.log) = 2
    /\ vars[1].addr # vars[2].addr
    /\ \A k \in 1..2 : last.log[k].writes = OneWrite(vars[k], dest[vars[k].addr])

\* C12: a binding run by Parse does what the accessor of its type does when
\* called with the same name and default in the same environment: it writes
\* to its destination the value the accessor returns, and panics, with the
\* same failure, exactly when the accessor panics.  Checked both ways: each
\* binding Parse ran against value, and each accessor call made against what
\* the bindings of its type and name in the queue would do now.
C12_BinderIsAccessor ==
    /\ last.op = "Parse" =>
          \A k \in 1..Len(last.log) :
              /\ last.log[k].panic.panicked =
                    ~value(env, wordSize, vars[k].T, vars[k].name,
                           vars[k].defaultValue, vars[k].cast).returned
              /\ last.log[k].panic =
                    value(env, wordSize, vars[k].T, vars[k].name,
                          vars[k].defaultValue, vars[k].cast).panic
              /\ ~last.log[k].panic.panicked =>
                    last.log[k].writes =
                        OneWrite(vars[k],
                                 value(env, wordSize, vars[k].T, vars[k].name,
                                       vars[k].defaultValue, vars[k].cast).ret)
    /\ last.op \in AccessorOps =>
          \A k \in 1..Len(vars) :
              (vars[k].T = last.T /\ vars[k].name = last.name) =>
                  /\ vars[k].cast = last.convert
                  /\ vars[k].defaultValue = last.defaultValue
                  /\ setVar(env, wordSize, dest, vars[k]).panic = last.panic
                  /\ setVar(env, wordSize, dest, vars[k]).panic.panicked
                        = ~last.returned
                  /\ last.returned =>
                        setVar(env, wordSize, dest, vars[k]).writes =
                            OneWrite(vars[k], last.ret)

\* the accessor Float64 has returned the value of a variable that a float64
\* binding of the queue is registered for, and the destination, written by
\* Parse, holds that value
C12_Witness ==
    /\ last.op = "Float64"
    /\ last.returned
    /\ env[last.name] = Set(<<"1">>)
    /\ Len(vars) = 1
    /\ vars[1].T = "float64"
    /\ vars[1].name = last.name
    /\ dest[vars[1].addr] = last.ret
    /\ last.ret # last.defaultValue

\* C13: an accessor call, whether it returns or panics, leaves the queue, the
\* environment and every destination as they were; what Parse writes is a
\* function of these (and of the platform's word size) alone, so that a Parse
\* call made after the accessor call does what it would have done before it.
C13_AccessorFrame ==
    [][last'.op \in AccessorOps =>
          /\ last'.returned = ~last'.panic.panicked
          /\ vars' = vars
          /\ env' = env
          /\ dest' = dest
          /\ wordSize' = wordSize
          /\ atype' = atype]_state

\* an accessor has panicked between binder and Parse calls: the queue holds
\* three bindings and a destination a value that Parse wrote
C13_Witness ==
    /\ last.op = "Int"
    /\ ~last.returned
    /\ last.panic.panicked
    /\ Len(vars) = 3
    /\ \E a \in Addrs : dest[a] = V("int", IntV(FALSE, <<1>>))

\* C14: the one error there is is a conversion failure.  Whenever a call
\* panics, the variable it names is present in the environment and its
\* converter fails on the value; a call whose variables are all missing does
\* not panic; and Parse on an empty queue returns having run nothing and
\* written nothing.
C14_OneErrorKind ==
    /\ last.op \in AccessorOps =>
          /\ last.panic.panicked => FailsIn(env, last.convert, last.name)
          /\ ~env[last.name].present => (last.returned /\ ~last.panic.panicked)
    /\ last.op = "Parse" =>
          /\ last.panic.panicked =>
                /\ last.log # <<>>
                /\ last.panic.variable = vars[Len(last.log)].name
                /\ FailsIn(env, vars[Len(last.log)].cast,
                           vars[Len(last.log)].name)
          /\ (\A i \in 1..Len(vars) : ~env[vars[i].name].present) =>
                ~last.panic.panicked
          /\ vars = <<>> =>
                /\ last.log = <<>>
                /\ ~last.panic.panicked
                /\ \A a \in Addrs : dest[a] = Zero(atype[a])

\* Parse has returned from an empty queue, in an environment where a variable
\* is set that no numeric binding would accept and another is missing
C14_Witness ==
    /\ last.op = "Parse"
    /\ vars = <<>>
    /\ last.log = <<>>
    /\ ~last.panic.panicked
    /\ env["FOO"] = Set(<<"a", "b", "c">>)
    /\ ~env["BAR"].present

\* C15: what a conversion failure panics with has three parts: the name of
\* the variable, the name of the type of the accessor or binding that failed,
\* and the error its converter returned for the variable's value.  When Parse
\* panics they are those of the binding it was running, the last one logged.
C15_ConversionFailure ==
    /\ (last.op \in AccessorOps /\ last.panic.panicked) =>
          /\ last.panic.variable = last.name
          /\ last.panic.type = last.T
          /\ last.panic.type \in Types
          /\ last.panic.err = Cast(last.convert, env[last.name].v, wordSize).err
          /\ last.panic.err.num = env[last.name].v
          /\ last.panic.err.err \in {ErrSyntax, ErrRange}
    /\ (last.op = "Parse" /\ last.panic.panicked) =>
          /\ last.panic = last.log[Len(last.log)].panic
          /\ last.panic.variable = vars[Len(last.log)].name
          /\ last.panic.type = vars[Len(last.log)].T
          /\ last.panic.type = atype[vars[Len(last.log)].addr]
          /\ last.panic.err =
                Cast(vars[Len(last.log)].cast,
                     env[vars[Len(last.log)].name].v, wordSize).err
          /\ last.panic.err.num = env[vars[Len(last.log)].name].v
          /\ last.panic.err.err \in {ErrSyntax, ErrRange}

\* A is registered for FOO and B for BAR, BAR is not an integer: Parse has
\* written A and panicked naming BAR, the type int and Atoi's syntax error
C15_Witness ==
    /\ last.op = "Parse"
    /\ Len(vars) = 2
    /\ vars[1].addr = "A" /\ vars[1].name = "FOO" /\ vars[1].T = "int"
    /\ vars[2].addr = "B" /\ vars[2].name = "BAR" /\ vars[2].T = "int"
    /\ env["FOO"] = Set(<<"1">>)
    /\ env["BAR"] = Set(<<"a", "b", "c">>)
    /\ dest["A"] = V("int", IntV(FALSE, <<1>>))
    /\ dest["B"] = Zero("int")
    /\ last.panic.panicked
    /\ last.panic.variable = "BAR"
    /\ last.panic.type = "int"
    /\ last.panic.err = [func |-> "Atoi", num |-> <<"a", "b", "c">>,
                         err |-> ErrSyntax]

\* C16: Uint fails exactly when the 64-bit unsigned parse of the value fails,
\* with that parse's error, and has no range check of its own: when the wide
\* parse gives n the result is the one r with 0 <= r < 2^w and n - r a
\* multiple of 2^w, w the width of uint.  With w = 64 it is n; with w = 32,
\* "4294967296" gives 0.
C16_UintNarrows ==
    (last.op = "Uint" /\ env[last.name].present) =>
        LET wide == castUint64(env[last.name].v)
        IN  /\ last.returned = wide.ok
            /\ ~wide.ok => (last.panic.panicked /\ last.panic.err = wide.err)
            /\ wide.ok =>
                  /\ last.ret.t = "uint"
                  /\ ~last.ret.v.neg
                  /\ MagLess(last.ret.v.mag, Pow2(wordSize))
                  /\ MagLeq(last.ret.v.mag, wide.v.mag)
                  /\ MagMod(MagSub(wide.v.mag, last.ret.v.mag), Pow2(wordSize))
                        = <<0>>
                  /\ wordSize = 64 => last.ret.v = wide.v
                  /\ (wordSize = 32 /\ env[last.name].v = <<"4", "2", "9", "4", "9", "6", "7", "2", "9", "6">>)
                        => last.ret.v = IntV(FALSE, <<0>>)
                  /\ (wordSize = 32 /\ env[last.name].v = <<"4", "2", "9", "4", "9", "6", "7", "2", "9", "7">>)
                        => last.ret.v = IntV(FALSE, <<1>>)

\* on a 32-bit platform Uint has returned 0 for a variable set to 2^32
C16_Witness ==
    /\ last.op = "Uint"
    /\ wordSize = 32
    /\ env[last.name] = Set(<<"4", "2", "9", "4", "9", "6", "7", "2", "9", "6">>)
    /\ last.returned
    /\ ~last.panic.panicked
    /\ last.ret = V("uint", IntV(FALSE, <<0>>))
    /\ last.ret # last.defaultValue

\* C17: Duration succeeds exactly when the signed 64-bit base-10 parse of the
\* value succeeds, fails with that parse's error, and returns the integer
\* parsed as a count of nanoseconds: "5000000000" is five seconds, and "5s"
\* is a conversion failure.
C17_DurationIsInt64 ==
    (last.op = "Duration" /\ env[last.name].present) =>
        LET i == castInt64(env[last.name].v)
        IN  /\ last.returned = i.ok
            /\ i.ok => last.ret = V("time.Duration", i.v)
            /\ ~i.ok =>
                  /\ last.panic.panicked
                  /\ last.panic.type = "time.Duration"
                  /\ last.panic.err = i.err
            /\ env[last.name].v = <<"5", "0", "0", "0", "0", "0", "0", "0", "0", "0">> =>
                  /\ last.returned
                  /\ last.ret = V("time.Duration",
                                  IntV(FALSE, <<5, 0, 0, 0, 0, 0, 0, 0, 0, 0>>))
            /\ env[last.name].v = <<"5", "s">> =>
                  /\ ~last.returned
                  /\ last.panic.panicked
                  /\ last.panic.err = [func |-> "ParseInt", num |-> <<"5", "s">>,
                                       err |-> ErrSyntax]

\* Duration has panicked on "5s" where the other variable, "5000000000", is a
\* count it accepts
C17_Witness ==
    /\ last.op = "Duration"
    /\ env[last.name] = Set(<<"5", "s">>)
    /\ \E n \in Names : env[n] = Set(<<"5", "0", "0", "0", "0", "0", "0", "0", "0", "0">>)
    /\ ~last.returned
    /\ last.panic.panicked
    /\ last.panic.variable = last.name

\* C18: the queue is empty at first and only grows at its end: a binder call
\* appends one binding, of the type of the binder called, and leaves the
\* bindings before it as they were, in their order; every other call, Parse
\* returning or panicking and the accessors among them, leaves the queue as
\* it is.  The length of the queue is thus the number of binder calls made,
\* and it never shrinks.
C18_AppendOnly ==
    /\ vars = <<>>
    /\ [][/\ Len(vars') >= Len(vars)
          /\ last'.op \in BinderOps =>
                /\ Len(vars') = Len(vars) + 1
                /\ vars' = Append(vars, vars'[Len(vars')])
                /\ vars'[Len(vars')].T = atype[vars'[Len(vars')].addr]
          /\ last'.op \notin BinderOps => vars' = vars]_state

\* Parse has panicked on a queue of three different bindings, registered in
\* this order, and the queue still holds them
C18_Witness ==
    /\ last.op = "Parse"
    /\ last.panic.panicked
    /\ Len(vars) = 3
    /\ vars[1].addr = "A" /\ vars[1].name = "FOO"
    /\ vars[2].addr = "B" /\ vars[2].name = "FOO"
    /\ vars[3].addr = "B" /\ vars[3].name = "BAR"

\* C19: Parse keeps no mark of how far the last call came.  A call made after
\* a call that panicked, at once or after the environment was changed, starts
\* at the first binding and runs the bindings in order, each one writing what
\* its variable resolves to now; when no conversion fails any more it runs
\* them all and returns; and when nothing has changed it does again what the
\* call that panicked did.
C19_NoProgressMarker ==
    [][(last'.op = "Parse" /\ last'.prev \in {"panic", "corrected"}) =>
          /\ vars' = vars
          /\ last'.log # <<>>
          /\ \A k \in 1..Len(last'.log) :
                /\ last'.log[k].i = k
                /\ ~last'.log[k].panic.panicked =>
                      last'.log[k].writes =
                          OneWrite(vars[k], ResolvedIn(env, vars[k].T,
                                                       vars[k].cast, vars[k].name))
          /\ (\A i \in 1..Len(vars) : ~FailsIn(env, vars[i].cast, vars[i].name)) =>
                /\ ~last'.panic.panicked
                /\ Len(last'.log) = Len(vars)
                /\ \A i \in 1..Len(vars) :
                      dest'[vars[i].addr] = After(last'.log, Len(vars), vars[i].addr, dest)
          /\ last.op = "Parse" =>
                /\ last'.log = last.log
                /\ last'.panic = last.panic
                /\ dest' = dest]_state

\* after a Parse call that panicked the environment was changed, and the next
\* call has run all three bindings, from the first, and written both
\* destinations
C19_Witness ==
    /\ last.op = "Parse"
    /\ last.prev = "corrected"
    /\ ~last.panic.panicked
    /\ Len(vars) = 3
    /\ Len(last.log) = 3
    /\ last.log[1].i = 1
    /\ vars[1].addr # vars[3].addr
    /\ \A k \in 1..3 : LastOn(vars, last.log, k) =>
          dest[vars[k].addr] = last.log[k].writes[1].v
    /\ \A a \in Addrs : dest[a] # Zero(atype[a])

\* C20: the bindings two goroutines register, each by one binder call.  When
\* one call is made after the other is over, the queue holds both bindings,
\* each once, in the order of the calls; when both calls read the queue
\* before either stores it (append taken as a read of the shared queue and a
\* store of the queue read with the binding at its end), the queue holds one
\* of the two bindings only.  Parse writes the destination of a binding that
\* is in the queue, and never the destination of a binding that is not.
Joined == \A t \in Threads : threads[t].pc = "done"

OneAfterAnother == \E t \in Threads : threads[t].after # {}

Queued(t) == {i \in 1..Len(vars) : vars[i] = threads[t].b}

C20_SafeOnlySequential ==
    Joined =>
        /\ OneAfterAnother =>
              /\ Len(vars) = 2
              /\ \A t \in Threads : Cardinality(Queued(t)) = 1
              /\ \A t \in Threads : threads[t].after # {} => vars[2] = threads[t].b
        /\ ~OneAfterAnother =>
              /\ Len(vars) = 1
              /\ \E t \in Threads : vars = <<threads[t].b>>
        /\ last.op = "Parse" =>
              \A t \in Threads :
                  /\ Queued(t) = {} =>
                        /\ dest[AddrOf(t)] = Zero(atype[AddrOf(t)])
                        /\ WritesTo(last.log, AddrOf(t)) = 0
                  /\ (Queued(t) # {} /\ ~last.panic.panicked) =>
                        dest[AddrOf(t)] =
                            ResolvedIn(env, threads[t].b.T, threads[t].b.cast,
                                       threads[t].b.name)

\* both calls are over, the queue holds the binding of the second goroutine
\* only, and Parse has returned without writing the destination of the first,
\* whose variable resolves to a value that is not the one the destination has
C20_Witness ==
    /\ Joined
    /\ ~OneAfterAnother
    /\ vars = <<threads[2].b>>
    /\ last.op = "Parse"
    /\ ~last.panic.panicked
    /\ dest["A"] = Zero(atype["A"])
    /\ dest["B"] # Zero(atype["B"])
    /\ ~FailsIn(env, threads[1].b.cast, threads[1].b.name)
    /\ ResolvedIn(env, threads[1].b.T, threads[1].b.cast, threads[1].b.name)
          # dest["A"]

====
